---- MODULE Spec2Model ----
(***************************************************************************)
(* Review-Scraper: the pagination loop of BaseScraper.scrape() with the    *)
(* command-line driver around it (specification Spec), and one page fetch  *)
(* of get_soup() with its browser session and its static retries          *)
(* (specification SpecFetch).  SpecReuse calls scrape() twice on one       *)
(* adapter object; SpecRange, SpecParseDate and SpecParse apply the date   *)
(* utilities, parse_date and the adapters' parse_review to their inputs.   *)
(* SpecElements applies the adapters' get_review_elements to documents,    *)
(* SpecPage follows discovery, fallback and emptiness check of one fetched *)
(* page, and SpecSeq runs the loop with every call of get_soup followed    *)
(* step by step.                                                           *)
(*                                                                         *)
(* Dates are day numbers.  A date text is the day it parses to, or None    *)
(* when no format of parse_date matches it.                                *)
(***************************************************************************)
EXTENDS Integers, Sequences, FiniteSets, TLC

\* ------------------------------------------------------------------ bounds
\* Days of the modelled calendar are 0..MaxDay.
MaxDay == 2
\* The date utilities are applied to the days 0..MaxRangeDay.
MaxRangeDay == 4
\* parse_date is applied to the texts of the dates of MaxYears years.
MaxYears == 2
\* parse_review is applied to MaxParsed elements in a row.
MaxParsed == 2
\* Elements one page's discovery (or fallback) returns, at most.
MaxElems == 2
\* Records the embedded-JSON pass of one page returns, at most.
MaxJson == 1
\* The site offers in-range records only while fewer than this were accepted.
MaxAccepted == 2
\* fetch_with_retry's delay parameter is 1..MaxDelay.
MaxDelay == 2
\* One lookup of get_review_elements finds MaxMatches elements at most.
MaxMatches == 5
\* The scan of G2's second strategy takes MaxScanned divs at most.
MaxScanned == 11
\* Candidates of one document that pass the tests of the fallback, at most.
MaxQualifying == 22
\* Where every call of get_soup is followed inside the loop, the pages
\* 1..MaxFollowed are fetched.
MaxFollowed == 2

\* --------------------------------------------------------------- constants
\* `if page_num > 100`
MaxPages == 100
\* generate_sample_reviews(..., count=10)
SampleCount == 10
\* `if days_range < 1: days_range = 365`
DefaultDaysRange == 365
\* Python's None, for a date that did not parse (days are >= 0).
None == -1
\* fetch_with_retry(url, max_retries=3, delay=1.0)
MaxRetries == 3
\* `for i in range(6):` of the challenge wait
ChallengeRounds == 6

Days == 0..MaxDay
\* What a date text can be: the text of a day, or an unparseable one.
DateTexts == Days \cup {None}
Sources == {"g2", "capterra", "trustpilot"}
\* What --source can be given as: a choice, or any other text.
SourceArgs == Sources \cup {"yelp"}

\* ---------------------------------------------------------- date utilities
parse_date(text) == IF text \in Days THEN text ELSE None

is_date_in_range_NoUpperBound(review_date_, start, end) ==
    start <= review_date_

is_date_in_range_Exclusive(review_date_, start, end) ==
    start < review_date_ /\ review_date_ < end

is_date_in_range(review_date_, start, end) ==
    start <= review_date_ /\ review_date_ <= end

should_stop_scraping_NoNoneCheck(review_date_, start) == review_date_ < start

should_stop_scraping_OffByOne(review_date_, start) ==
    IF review_date_ = None THEN FALSE ELSE review_date_ < start - 1

should_stop_scraping_NotTheStart(review_date_, start) ==
    IF review_date_ = None THEN FALSE ELSE review_date_ # start

should_stop_scraping_Inclusive(review_date_, start) ==
    IF review_date_ = None THEN FALSE ELSE review_date_ <= start

should_stop_scraping(review_date_, start) ==
    IF review_date_ = None THEN FALSE ELSE review_date_ < start

\* ------------------------------------------------------------ sample data
\* The representative draws of random.randint(0, days_range).
RandomDraws(days_range) == {0, days_range \div 2, days_range}

days_range_of(start, end) ==
    IF end - start < 1 THEN DefaultDaysRange ELSE end - start

SampleRecord(day, src) == [date |-> day, source |-> src, sample |-> TRUE]

\* `count` records, each start + a draw, sorted newest first: every sorted
\* outcome is n_hi records at the largest draw, n_lo at the smallest and the
\* rest at the middle one.
generate_sample_reviews(start, end, src, count) ==
    LET n  == days_range_of(start, end)
        hi == start + n
        md == start + (n \div 2)
        lo == start
    IN  { [i \in 1..count |->
              SampleRecord(IF i <= c[1] THEN hi
                           ELSE IF i <= count - c[2] THEN md ELSE lo, src)]
          : c \in {x \in (0..count) \X (0..count) : x[1] + x[2] <= count} }

\* format_review_date: parse the text and print it as YYYY-MM-DD; a text that
\* does not parse is left as it is.
format_review_date(text) ==
    IF parse_date(text) # None THEN parse_date(text) ELSE text

\* ------------------------------------------------------------ parse_review
\* A review element, as far as parse_review reads it: whether reading it
\* raises, its title element ("absent", "empty", "present": with text), the
\* length of its best text block and of its whole text, and its date text.
TitleStates == {"absent", "empty", "present"}
\* Lengths on both sides of the adapters' thresholds.
TextLens == {0, 10, 25, 50}

\* G2: `len(text) > 30` for a text block or a line of the whole text.
G2MinTextLen == 30
\* Capterra: `if len(text) > 20`.
CapterraMinTextLen == 20

\* fallback_extract_reviews: `if len(reviews) >= 20`.
FallbackCap == 20

\* G2's get_review_elements: `if len(reviews) >= 5`.
G2MinElements == 5
\* G2's get_review_elements: `if not reviews or len(reviews) < 3`.
G2FewElements == 3
\* G2's get_review_elements: `if len(reviews) >= 10`.
G2ScanCap == 10

Elements ==
    [fails : BOOLEAN, title : TitleStates, text_len : TextLens,
     whole_len : TextLens, date : DateTexts]

\* review['title'] is non-empty.
TitleFound(el) == el.title = "present"

\* review['review_text'] is non-empty, adapter by adapter.
TextFound(adapter, el) ==
    CASE adapter = "g2" ->
           el.text_len > G2MinTextLen \/ el.whole_len > G2MinTextLen
      [] adapter = "capterra" -> el.text_len > CapterraMinTextLen
      [] adapter = "trustpilot" -> el.text_len > 0

KeepsReview_Always(has_text, has_title) == TRUE

\* `if review['review_text'] or review['title']: return review`.
KeepsReview(has_text, has_title) == has_text \/ has_title

ParsedReview(adapter, el) ==
    [title |-> TitleFound(el), text |-> TextFound(adapter, el),
     date |-> el.date, source |-> adapter]

CatchesParseError_Never(el) == FALSE

\* `try: ... except Exception as e: print(...)` spans the whole body of
\* parse_review: whatever reading the element raises is caught.
CatchesParseError(el) == TRUE

\* parse_review of the three adapters: <<>> is None, <<r>> the record r.
\* After the except branch the function falls through to `return None`.
parse_review(adapter, el) ==
    IF el.fails THEN <<>>
    ELSE IF KeepsReview(TextFound(adapter, el), TitleFound(el))
    THEN <<ParsedReview(adapter, el)>>
    ELSE <<>>

\* ------------------------------------------------------------------ state
VARIABLES
    pc,                 \* position of the driver / of scrape()
    start_arg, end_arg, \* --start-date, --end-date (None: not YYYY-MM-DD)
    source,             \* --source
    overrides_json,     \* the adapter class overrides parse_json_review
                        \* (none of the three does; a subclass may, and is
                        \* followed for the source g2)
    start_date, end_date,
    url,                \* scrape(): TRUE a URL, FALSE None
    page_num,
    soup,               \* "unset", "doc", "none"
    json_found,         \* json_reviews is non-empty
    json_left,          \* records of json_reviews not yet iterated
    elems_left,         \* elements of review_elements not yet iterated
    review,             \* parse_review's result: "unset", "record", "none"
                        \* (None: neither title nor text), "error" (None
                        \* after its except branch ran)
    review_date,        \* the date parsed last in a loop body
    page_stopped_early,
    reviews,            \* self.reviews
    main_reviews,       \* main(): reviews
    output,             \* the reviews array of the saved JSON file
    saved,              \* save_output wrote the file
    exit_code,
    ending,             \* how main() ended: "none" while it runs
    warnings,           \* sample-data warnings printed so far
    stop_reason,        \* why the pagination loop was left
    fetches,            \* calls of get_soup in this scrape()
    carried,            \* records self.reviews held when scrape() was entered
    \* ---- the date utilities applied to arguments (specification SpecRange)
    u_pc,               \* which utility specification runs: "idle" if none
    range_d,            \* review_date / date argument: a day or None
    range_start,
    range_end,
    in_range,           \* is_date_in_range's result: "unset", "True",
                        \* "False", "TypeError"
    should_stop,        \* should_stop_scraping's result
    \* ---- parse_date applied to a rendered date (specification SpecParseDate)
    pd_date,            \* the calendar date rendered
    pd_fmt,             \* the format it is rendered in
    pd_text,            \* date_str
    pd_parsed,          \* parse_date's result: <<>> None, <<d>> the date d
    \* ---- parse_review applied to elements (specification SpecParse)
    pr_adapter,         \* the adapter class
    pr_element,         \* review_element
    pr_result,          \* parse_review's result: <<>> None, <<r>> the record
    pr_seen,            \* elements handed to parse_review so far
    pr_kept,            \* the records appended to the accumulated list
    \* ---- get_review_elements applied to documents (specification
    \* SpecElements)
    re_adapter,         \* the adapter class
    re_doc,             \* soup: what each lookup of the method finds in it
    re_result,          \* <<>> before the return, <<list>> after it
    \* ---- one call of get_soup (specification SpecFetch)
    f_pc,               \* position in get_soup / get_soup_with_selenium
    SELENIUM_AVAILABLE,
    WEBDRIVER_MANAGER_AVAILABLE,
    UNDETECTED_CHROME_AVAILABLE,
    use_selenium,
    driver,             \* "none", "uc" (undetected), "regular"
    use_undetected,
    stealth,            \* the fingerprint script is installed on the session
    navigated,          \* driver.get(url) was called
    challenge_detected,
    rounds,             \* rounds of the challenge wait loop begun
    round_outcome,      \* how the last round ended: "none" before the first
    sel_exit,           \* how the try block was left
    sel_result,         \* "pending", "doc", "none"
    quit_calls,         \* calls of driver.quit()
    quit_failed,        \* driver.quit() raised
    propagated,         \* an exception left get_soup_with_selenium
    delay,              \* fetch_with_retry's delay
    attempt,            \* fetch_with_retry's loop variable
    gets,               \* calls of requests.get
    last_get,           \* outcome of the last requests.get
    slept,              \* the time.sleep durations of fetch_with_retry
    static_result,      \* "pending", "response", "none"
    f_result            \* what get_soup returned: "pending", "doc", "none"

scrape_vars == <<url, page_num, soup, json_found, json_left, elems_left,
                 review, review_date, page_stopped_early, reviews, stop_reason,
                 fetches>>
main_vars == <<start_arg, end_arg, source, overrides_json, start_date,
               end_date, main_reviews, output, saved, exit_code, ending,
               warnings>>
fetch_vars == <<f_pc, SELENIUM_AVAILABLE, WEBDRIVER_MANAGER_AVAILABLE,
                UNDETECTED_CHROME_AVAILABLE, use_selenium, driver,
                use_undetected, stealth, navigated, challenge_detected,
                rounds, round_outcome, sel_exit, sel_result, quit_calls, quit_failed,
                propagated, delay, attempt, gets, last_get, slept,
                static_result, f_result>>
\* State of the specifications that follow one function or one reused
\* instance; main() and get_soup() leave it alone.
range_vars == <<range_d, range_start, range_end, in_range, should_stop>>
parse_date_vars == <<pd_date, pd_fmt, pd_text, pd_parsed>>
parse_review_vars == <<pr_adapter, pr_element, pr_result, pr_seen, pr_kept>>
elements_vars == <<re_adapter, re_doc, re_result>>
util_vars == <<carried, u_pc, range_vars, parse_date_vars, parse_review_vars,
               elements_vars>>
vars == <<pc, scrape_vars, main_vars, fetch_vars, util_vars>>

\* get_source_name of the three adapter classes.
get_source_name(adapter) ==
    CASE adapter = "g2" -> "g2"
      [] adapter = "capterra" -> "capterra"
      [] adapter = "trustpilot" -> "trustpilot"

\* A record parsed from a page.
PageRecord(day, src) == [date |-> day, source |-> src, sample |-> FALSE]

\* What the site can offer as the next date text: in-range days only while
\* fewer than MaxAccepted records were accepted.
Offered ==
    IF Len(reviews) < MaxAccepted THEN DateTexts
    ELSE {t \in DateTexts :
            ~(parse_date(t) # None
              /\ is_date_in_range(parse_date(t), start_date, end_date))}

\* No call of get_soup is being followed.
FetchIdle ==
    /\ f_pc = "idle"
    /\ SELENIUM_AVAILABLE = FALSE
    /\ WEBDRIVER_MANAGER_AVAILABLE = FALSE
    /\ UNDETECTED_CHROME_AVAILABLE = FALSE
    /\ use_selenium = FALSE
    /\ driver = "none"
    /\ use_undetected = FALSE
    /\ stealth = FALSE
    /\ navigated = FALSE
    /\ challenge_detected = FALSE
    /\ rounds = 0
    /\ round_outcome = "none"
    /\ sel_exit = "none"
    /\ sel_result = "pending"
    /\ quit_calls = 0
    /\ quit_failed = FALSE
    /\ propagated = FALSE
    /\ delay = 1
    /\ attempt = 0
    /\ gets = 0
    /\ last_get = "none"
    /\ slept = <<>>
    /\ static_result = "pending"
    /\ f_result = "pending"

\* No specification of a single function, nor a second scrape(), is being
\* followed.
RangeIdle ==
    /\ range_d = None
    /\ range_start = 0
    /\ range_end = 0
    /\ in_range = "unset"
    /\ should_stop = "unset"

ParseDateIdle ==
    /\ pd_date = <<>>
    /\ pd_fmt = ""
    /\ pd_text = <<>>
    /\ pd_parsed = <<>>

ParseReviewIdle ==
    /\ pr_adapter = ""
    /\ pr_element = <<>>
    /\ pr_result = <<>>
    /\ pr_seen = 0
    /\ pr_kept = <<>>

ElementsIdle ==
    /\ re_adapter = ""
    /\ re_doc = <<>>
    /\ re_result = <<>>

UtilIdle ==
    /\ carried = 0
    /\ u_pc = "idle"
    /\ RangeIdle
    /\ ParseDateIdle
    /\ ParseReviewIdle
    /\ ElementsIdle

Init ==
    /\ FetchIdle
    /\ UtilIdle
    /\ pc = "parse_args"
    /\ start_arg \in DateTexts
    /\ end_arg \in DateTexts
    /\ source \in SourceArgs
    /\ overrides_json \in BOOLEAN
    /\ overrides_json => source = "g2"
    /\ start_date = None
    /\ end_date = None
    /\ url = FALSE
    /\ page_num = 0
    /\ soup = "unset"
    /\ json_found = FALSE
    /\ json_left = 0
    /\ elems_left = 0
    /\ review = "unset"
    /\ review_date = None
    /\ page_stopped_early = FALSE
    /\ reviews = <<>>
    /\ main_reviews = <<>>
    /\ output = <<>>
    /\ saved = FALSE
    /\ exit_code = 0
    /\ ending = "none"
    /\ warnings = 0
    /\ stop_reason = "none"
    /\ fetches = 0

\* ------------------------------------------------------------------ main()
\* The command line, which main() never changes.
arg_vars == <<start_arg, end_arg, source, overrides_json>>

\* parse_arguments: --source has choices=['g2', 'capterra', 'trustpilot'].
parse_arguments_rejects(src) == src \notin Sources

\* main(): args = parse_arguments(). On a --source outside the choices
\* argparse prints its usage error and raises SystemExit(2), which neither
\* `except KeyboardInterrupt` nor `except Exception` of main() catches.
ParseArguments ==
    /\ pc = "parse_args"
    /\ IF parse_arguments_rejects(source)
       THEN /\ pc' = "exited"
            /\ exit_code' = 2
            /\ ending' = "usage_error"
       ELSE /\ pc' = "validate"
            /\ UNCHANGED <<exit_code, ending>>
    /\ UNCHANGED <<scrape_vars, arg_vars, start_date, end_date, main_reviews,
                   output, saved, warnings>>
    /\ UNCHANGED <<fetch_vars, util_vars>>

validate_dates_raises_NoOrderCheck(start_str, end_str) ==
    start_str = None \/ end_str = None

\* validate_dates raises ValueError: a text that strptime('%Y-%m-%d')
\* rejects, or start_date > end_date.
validate_dates_raises(start_str, end_str) ==
    start_str = None \/ end_str = None \/ start_str > end_str

\* main(): validate_dates. Its ValueError is printed and sys.exit(1) called.
ValidateDates ==
    /\ pc = "validate"
    /\ IF validate_dates_raises(start_arg, end_arg)
       THEN /\ pc' = "exited"
            /\ exit_code' = 1
            /\ ending' = "input_error"
            /\ UNCHANGED <<start_date, end_date>>
       ELSE /\ pc' = "get_scraper"
            /\ start_date' = start_arg
            /\ end_date' = end_arg
            /\ UNCHANGED <<exit_code, ending>>
    /\ UNCHANGED <<scrape_vars, arg_vars, main_reviews, output, saved,
                   warnings>>
    /\ UNCHANGED <<fetch_vars, util_vars>>

\* main(): get_scraper, the adapter's constructor (self.reviews = []), and the
\* head of scrape(): url = get_company_url(), page_num = 1.
GetScraper ==
    /\ pc = "get_scraper"
    /\ reviews' = <<>>
    /\ url' = TRUE
    /\ page_num' = 1
    /\ pc' = "fetch"
    /\ UNCHANGED <<soup, json_found, json_left, elems_left, review, review_date,
                   page_stopped_early, stop_reason, fetches, main_vars>>
    /\ UNCHANGED <<fetch_vars, util_vars>>

\* ---------------------------------------------------------------- scrape()
\* Leaving the pagination loop for `reason`: on to the code after the loop.
LeaveLoop(reason) ==
    /\ pc' = "after_loop"
    /\ stop_reason' = reason

\* `return self.reviews`: the locals of scrape() end here.
ReturnFromScrape ==
    /\ pc' = "returned"
    /\ url' = FALSE
    /\ page_num' = 0
    /\ soup' = "unset"
    /\ json_found' = FALSE
    /\ json_left' = 0
    /\ elems_left' = 0
    /\ review' = "unset"
    /\ review_date' = None
    /\ page_stopped_early' = FALSE
    /\ fetches' = 0

\* An exception leaves scrape(): its locals end, self.reviews stays as it is
\* in the adapter object.
RaiseOutOfScrape ==
    /\ pc' = "scrape_raised"
    /\ stop_reason' = "raised"
    /\ url' = FALSE
    /\ page_num' = 0
    /\ soup' = "unset"
    /\ json_found' = FALSE
    /\ json_left' = 0
    /\ elems_left' = 0
    /\ review' = "unset"
    /\ review_date' = None
    /\ page_stopped_early' = FALSE
    /\ fetches' = 0

FetchFailed_Never(document) == FALSE

\* `if soup is None:` after the fetch.
FetchFailed(document) == document = "none"

\* `while url:` and soup = get_soup(url, use_selenium); on no document the
\* loop is left (`Failed to fetch page`, break).
FetchPage ==
    /\ pc = "fetch"
    /\ url
    /\ fetches' = fetches + 1
    /\ \E document \in {"doc", "none"} :
         /\ soup' = document
         /\ IF FetchFailed(document)
            THEN LeaveLoop("fetch_failed")
            ELSE pc' = "json" /\ UNCHANGED stop_reason
    /\ UNCHANGED <<url, page_num, json_found, json_left, elems_left, review,
                   review_date, page_stopped_early, reviews, main_vars>>
    /\ UNCHANGED <<fetch_vars, util_vars>>

parse_json_review_yields_Always(overrides) == TRUE

\* parse_json_review can return a record for a payload only where a subclass
\* overrides it: the default is `return None`, and none of G2Scraper,
\* CapterraScraper and TrustpilotScraper defines the method.
parse_json_review_yields(overrides) == overrides

\* How many records extract_reviews_from_json can return for a document
\* with payload items: `review = self.parse_json_review(item)`,
\* `if review: reviews.append(review)`.
JsonCounts ==
    IF parse_json_review_yields(overrides_json) THEN 0..MaxJson ELSE {0}

\* json_reviews = self.extract_reviews_from_json(soup); `if json_reviews:`.
ExtractJson ==
    /\ pc = "json"
    /\ \E n \in JsonCounts :
         /\ json_left' = n
         /\ json_found' = (n > 0)
         /\ pc' = IF n > 0 THEN "json_loop" ELSE "discover"
    /\ UNCHANGED <<url, page_num, soup, elems_left, review, review_date,
                   page_stopped_early, reviews, stop_reason, fetches, main_vars>>
    /\ UNCHANGED <<fetch_vars, util_vars>>

\* On to the next record of json_reviews, or to the element discovery.
JsonNext(d) ==
    /\ review_date' = d
    /\ json_left' = json_left - 1
    /\ pc' = IF json_left = 1 THEN "discover" ELSE "json_loop"
    /\ UNCHANGED <<url, page_num, soup, json_found, elems_left,
                   review, page_stopped_early, stop_reason, fetches>>

JsonStops_Never(d) == FALSE

\* `elif should_stop_scraping(review_date, self.start_date):` of the
\* embedded-JSON pass.
JsonStops(d) == should_stop_scraping(d, start_date)

\* One iteration of `for json_review in json_reviews:`. A record older than
\* the start date returns self.reviews from scrape() at once.
JsonIter ==
    /\ pc = "json_loop"
    /\ json_left > 0
    /\ \E text \in Offered :
         LET d == parse_date(text) IN
         IF d # None /\ is_date_in_range(d, start_date, end_date)
         THEN /\ reviews' = Append(reviews, PageRecord(d, source))
              /\ JsonNext(d)
         ELSE IF JsonStops(d)
         THEN /\ review_date' = d
              /\ stop_reason' = "date_json"
              /\ pc' = "json_return"
              /\ UNCHANGED <<url, page_num, soup, json_found, json_left,
                             elems_left, review, page_stopped_early, reviews, fetches>>
         ELSE /\ JsonNext(d)
              /\ UNCHANGED reviews
    /\ UNCHANGED main_vars
    /\ UNCHANGED <<fetch_vars, util_vars>>

\* `return self.reviews` inside the embedded-JSON pass.
JsonReturn ==
    /\ pc = "json_return"
    /\ ReturnFromScrape
    /\ UNCHANGED <<reviews, stop_reason, main_vars>>
    /\ UNCHANGED <<fetch_vars, util_vars>>

\* `if not review_elements and not json_reviews:` before the fallback.
NeedsFallback(n) == n = 0 /\ ~json_found

\* review_elements = self.get_review_elements(soup); the fallback is tried
\* when it is empty and json_reviews is empty too. The element pass assigns
\* review_date before it reads it: the JSON pass's value is dropped here.
\* It is called outside any try block: what it raises leaves scrape().
GetReviewElements ==
    /\ pc = "discover"
    /\ \/ /\ \E n \in 0..MaxElems :
               /\ elems_left' = n
               /\ pc' = IF NeedsFallback(n) THEN "fallback" ELSE "empty_check"
          /\ review_date' = None
          /\ UNCHANGED <<url, page_num, soup, json_found, json_left, review,
                         page_stopped_early, stop_reason, fetches>>
       \/ RaiseOutOfScrape
    /\ UNCHANGED <<reviews, main_vars>>
    /\ UNCHANGED <<fetch_vars, util_vars>>

\* A fallback list that is full only past the limit.
FallbackFull_PastLimit(n) == n > FallbackCap

\* `if len(reviews) >= 20: break` of fallback_extract_reviews.
FallbackFull(n) == n >= FallbackCap

\* The loop of fallback_extract_reviews over the candidates that pass its
\* three tests: each is appended, then the break. The result is the length
\* of the list.
RECURSIVE FallbackLoop(_, _)
FallbackLoop(qualifying, n) ==
    IF qualifying = 0 THEN n
    ELSE IF FallbackFull(n + 1) THEN n + 1
    ELSE FallbackLoop(qualifying - 1, n + 1)

fallback_extract_reviews(qualifying) == FallbackLoop(qualifying, 0)

\* How many candidates of a document pass the three tests: up to
\* MaxQualifying where one page is followed on its own, up to MaxElems in a
\* whole run.
QualifyingCounts == IF u_pc = "page" THEN 0..MaxQualifying ELSE 0..MaxElems

\* review_elements = self.fallback_extract_reviews(soup), outside any try
\* block too.
Fallback ==
    /\ pc = "fallback"
    /\ \/ /\ \E c \in QualifyingCounts :
               elems_left' = fallback_extract_reviews(c)
          /\ pc' = "empty_check"
          /\ UNCHANGED <<url, page_num, soup, json_found, json_left, review,
                         review_date, page_stopped_early, stop_reason,
                         fetches>>
       \/ RaiseOutOfScrape
    /\ UNCHANGED <<reviews, main_vars>>
    /\ UNCHANGED <<fetch_vars, util_vars>>

PageIsEmpty_IgnoresJson(n) == n = 0

\* `if not review_elements and not json_reviews:` the page is empty.
PageIsEmpty(n) == n = 0 /\ ~json_found

\* The emptiness check: `No reviews found on page`, break; else the element
\* loop starts.
EmptyCheck ==
    /\ pc = "empty_check"
    /\ IF PageIsEmpty(elems_left)
       THEN LeaveLoop("empty")
       ELSE pc' = "elements" /\ UNCHANGED stop_reason
    /\ UNCHANGED <<url, page_num, soup, json_found, json_left, elems_left,
                   review, review_date, page_stopped_early, reviews, fetches,
                   main_vars>>
    /\ UNCHANGED <<fetch_vars, util_vars>>

\* The elements the loop is followed on: one whose parsing raises, one with
\* neither title nor text, and one with a title for every date text the site
\* can offer.
LoopElements ==
    {[fails |-> TRUE, title |-> "absent", text_len |-> 0, whole_len |-> 0,
      date |-> None],
     [fails |-> FALSE, title |-> "empty", text_len |-> 0, whole_len |-> 0,
      date |-> None]}
    \cup {[fails |-> FALSE, title |-> "present", text_len |-> 0,
           whole_len |-> 0, date |-> t] : t \in Offered}

\* One iteration of `for element in review_elements:`. parse_review gives no
\* record (continue: review_date is not read before the next record assigns
\* it, and is put back to None) or a record with a date text. The call is
\* outside any try block of scrape(): an error parse_review did not catch
\* would leave scrape().
ElementIter ==
    /\ pc = "elements"
    /\ elems_left > 0
    /\ \E el \in LoopElements :
         IF el.fails /\ ~CatchesParseError(el)
         THEN /\ review' = "error"
              /\ pc' = "scrape_raised"
              /\ stop_reason' = "raised"
              /\ UNCHANGED <<review_date, elems_left, page_stopped_early,
                             reviews>>
         ELSE IF parse_review(source, el) = <<>>
         THEN /\ review' = IF el.fails THEN "error" ELSE "none"
              /\ review_date' = None
              /\ elems_left' = elems_left - 1
              /\ UNCHANGED <<pc, page_stopped_early, reviews, stop_reason>>
         ELSE LET d == parse_date(parse_review(source, el)[1].date) IN
              /\ review' = "record"
              /\ review_date' = d
              /\ IF should_stop_scraping(d, start_date)
                 THEN /\ page_stopped_early' = TRUE
                      /\ LeaveLoop("date")
                      /\ UNCHANGED <<reviews, elems_left>>
                 ELSE /\ elems_left' = elems_left - 1
                      /\ reviews' =
                           IF d # None
                              /\ is_date_in_range(d, start_date, end_date)
                           THEN Append(reviews, PageRecord(d, source))
                           ELSE reviews
                      /\ UNCHANGED <<pc, page_stopped_early, stop_reason>>
    /\ UNCHANGED <<url, page_num, soup, json_found, json_left, fetches,
                   main_vars>>
    /\ UNCHANGED <<fetch_vars, util_vars>>

PageLimitReached_OffByOne(n) == n > MaxPages + 1

\* `if page_num > 100:` after the increment.
PageLimitReached(n) == n > MaxPages

\* After the last element: url = self.get_next_page_url(soup, url),
\* page_num += 1, the page limit, and the loop's `while url:`. The page's
\* json_reviews, review and review_date are not read again before they are
\* reassigned: they are put back to their initial values.
\* get_next_page_url is called outside any try block: what it raises (the
\* ValueError of urljoin on a malformed href, for one) leaves scrape().
GetNextPageUrl ==
    /\ pc = "elements"
    /\ elems_left = 0
    /\ \/ /\ page_num' = page_num + 1
          /\ \E next \in BOOLEAN :
               /\ url' = next
               /\ IF PageLimitReached(page_num + 1)
                  THEN LeaveLoop("limit")
                  ELSE IF ~next
                  THEN LeaveLoop("no_next")
                  ELSE pc' = "fetch" /\ UNCHANGED stop_reason
          /\ json_found' = FALSE
          /\ review' = "unset"
          /\ review_date' = None
          /\ UNCHANGED <<soup, json_left, elems_left, page_stopped_early,
                         fetches>>
       \/ RaiseOutOfScrape
    /\ UNCHANGED <<reviews, main_vars>>
    /\ UNCHANGED <<fetch_vars, util_vars>>

\* A substitution that also replaces a list of one record.
NeedsSample_UpToOne(list) == Len(list) <= 1

\* `if len(self.reviews) == 0:` is what decides the substitution.
NeedsSample(list) == Len(list) = 0

\* After the loop: a warning and sample records when nothing was accepted;
\* return self.reviews.
AfterLoop ==
    /\ pc = "after_loop"
    /\ IF NeedsSample(reviews)
       THEN /\ warnings' = warnings + 1
            /\ reviews' \in generate_sample_reviews(start_date, end_date,
                                                    get_source_name(source),
                                                    SampleCount)
       ELSE UNCHANGED <<reviews, warnings>>
    /\ ReturnFromScrape
    /\ UNCHANGED <<stop_reason, arg_vars, start_date, end_date, main_reviews,
                   output, saved, exit_code, ending>>
    /\ UNCHANGED <<fetch_vars, util_vars>>

\* ------------------------------------------------------- main(), continued
\* What main() holds as reviews after the scrape: the list scrape() returned,
\* or [] when scrape() raised (`except Exception: ... reviews = []`).
ScrapeResult == IF pc = "scrape_raised" THEN <<>> ELSE reviews

\* reviews = scraper.scrape() in its try block; `if len(reviews) == 0:` the
\* notice and sample records.
MainSample ==
    /\ pc \in {"returned", "scrape_raised"}
    /\ IF NeedsSample(ScrapeResult)
       THEN /\ warnings' = warnings + 1
            /\ main_reviews' \in generate_sample_reviews(start_date, end_date,
                                                         source, SampleCount)
       ELSE /\ main_reviews' = ScrapeResult
            /\ UNCHANGED warnings
    /\ pc' = "save"
    /\ UNCHANGED <<scrape_vars, arg_vars, start_date, end_date, output, saved,
                   exit_code, ending>>
    /\ UNCHANGED <<fetch_vars, util_vars>>

\* save_output: every review, its review_date reformatted, then main()
\* returns: exit code 0. When the file cannot be written the error reaches
\* `except Exception` of main(): sys.exit(1).
SaveOutput ==
    /\ pc = "save"
    /\ \E written \in BOOLEAN :
         IF written
         THEN /\ output' = [i \in 1..Len(main_reviews) |->
                             [main_reviews[i] EXCEPT
                                !.date = format_review_date(main_reviews[i].date)]]
              /\ saved' = TRUE
              /\ exit_code' = 0
              /\ ending' = "completed"
         ELSE /\ exit_code' = 1
              /\ ending' = "unhandled"
              /\ UNCHANGED <<output, saved>>
    /\ pc' = "exited"
    /\ UNCHANGED <<scrape_vars, arg_vars, start_date, end_date, main_reviews,
                   warnings>>
    /\ UNCHANGED <<fetch_vars, util_vars>>

\* Ctrl-C while a page is being fetched: KeyboardInterrupt passes every
\* `except Exception` on its way and reaches `except KeyboardInterrupt` of
\* main(): sys.exit(1). The process and what it held are gone.
Interrupt ==
    /\ pc = "fetch"
    /\ pc' = "exited"
    /\ exit_code' = 1
    /\ ending' = "interrupted"
    /\ url' = FALSE
    /\ page_num' = 0
    /\ soup' = "unset"
    /\ review' = "unset"
    /\ reviews' = <<>>
    /\ fetches' = 0
    /\ UNCHANGED <<json_found, json_left, elems_left, review_date,
                   page_stopped_early, stop_reason, arg_vars, start_date,
                   end_date, main_reviews, output, saved, warnings>>
    /\ UNCHANGED <<fetch_vars, util_vars>>

Next ==
    \/ ParseArguments
    \/ ValidateDates
    \/ GetScraper
    \/ FetchPage
    \/ ExtractJson
    \/ JsonIter
    \/ GetReviewElements
    \/ JsonReturn
    \/ Fallback
    \/ EmptyCheck
    \/ ElementIter
    \/ GetNextPageUrl
    \/ AfterLoop
    \/ MainSample
    \/ SaveOutput
    \/ Interrupt

Spec == Init /\ [][Next]_vars

\* ------------------------------------------------ scrape(), called again
\* A caller holding the adapter object calls scrape() a second time after a
\* call that returned records: url = self.get_company_url(), page_num = 1.
\* Nothing in scrape() assigns self.reviews before the loop.
ScrapeAgain ==
    /\ pc = "returned"
    /\ carried = 0
    /\ Len(reviews) > 0
    /\ carried' = Len(reviews)
    /\ url' = TRUE
    /\ page_num' = 1
    /\ stop_reason' = "none"
    /\ pc' = "fetch"
    /\ UNCHANGED <<soup, json_found, json_left, elems_left, review, review_date,
                   page_stopped_early, reviews, fetches, main_vars, fetch_vars>>
    /\ UNCHANGED <<u_pc, range_vars, parse_date_vars, parse_review_vars,
                   elements_vars>>

\* One adapter object, with the window from day 1 to the last day.
InitReuse ==
    /\ Init
    /\ start_arg = 1
    /\ end_arg = MaxDay
    /\ source = "g2"

NextReuse ==
    \/ Next
    \/ ScrapeAgain

SpecReuse == InitReuse /\ [][NextReuse]_vars

\* ------------------------------------------------------------- get_soup()
\* The call soup = get_soup(url, use_selenium=SELENIUM_AVAILABLE) that scrape()
\* makes for its first page, followed step by step.
ScrapeAtFetch ==
    /\ UtilIdle
    /\ pc = "fetch"
    /\ start_arg = 0
    /\ end_arg = 0
    /\ source = "g2"
    /\ overrides_json = FALSE
    /\ start_date = 0
    /\ end_date = 0
    /\ url = TRUE
    /\ page_num = 1
    /\ soup = "unset"
    /\ json_found = FALSE
    /\ json_left = 0
    /\ elems_left = 0
    /\ review = "unset"
    /\ review_date = None
    /\ page_stopped_early = FALSE
    /\ reviews = <<>>
    /\ main_reviews = <<>>
    /\ output = <<>>
    /\ saved = FALSE
    /\ exit_code = 0
    /\ ending = "none"
    /\ warnings = 0
    /\ stop_reason = "none"
    /\ fetches = 0

\* The optional imports: without selenium neither webdriver_manager nor
\* undetected_chromedriver is imported.
InitFetch ==
    /\ ScrapeAtFetch
    /\ f_pc = "get_soup"
    /\ SELENIUM_AVAILABLE \in BOOLEAN
    /\ WEBDRIVER_MANAGER_AVAILABLE \in BOOLEAN
    /\ UNDETECTED_CHROME_AVAILABLE \in BOOLEAN
    /\ ~SELENIUM_AVAILABLE =>
         ~WEBDRIVER_MANAGER_AVAILABLE /\ ~UNDETECTED_CHROME_AVAILABLE
    /\ use_selenium = SELENIUM_AVAILABLE
    /\ driver = "none"
    /\ use_undetected = FALSE
    /\ stealth = FALSE
    /\ navigated = FALSE
    /\ challenge_detected = FALSE
    /\ rounds = 0
    /\ round_outcome = "none"
    /\ sel_exit = "none"
    /\ sel_result = "pending"
    /\ quit_calls = 0
    /\ quit_failed = FALSE
    /\ propagated = FALSE
    /\ delay \in 1..MaxDelay
    /\ attempt = 0
    /\ gets = 0
    /\ last_get = "none"
    /\ slept = <<>>
    /\ static_result = "pending"
    /\ f_result = "pending"

flag_vars == <<SELENIUM_AVAILABLE, WEBDRIVER_MANAGER_AVAILABLE,
               UNDETECTED_CHROME_AVAILABLE, use_selenium, delay>>
static_vars == <<attempt, gets, last_get, slept, static_result>>
session_vars == <<driver, use_undetected, stealth, navigated,
                  challenge_detected, rounds, round_outcome, quit_calls, quit_failed,
                  propagated>>

\* get_soup: `if use_selenium:` the dynamic attempt comes first.
GetSoupEnter ==
    /\ f_pc = "get_soup"
    /\ f_pc' = IF use_selenium THEN "selenium" ELSE "static"
    /\ UNCHANGED <<pc, scrape_vars, main_vars, util_vars, flag_vars, static_vars,
                   session_vars, sel_exit, sel_result, f_result>>

\* An exception inside the try block: `except ...: return None`, then finally.
RaiseInTry ==
    /\ sel_exit' = "exception"
    /\ sel_result' = "none"
    /\ f_pc' = "sel_finally"

\* get_soup_with_selenium: the availability check, driver = None, and the
\* launch of the undetected browser when it can be imported.
SeleniumStart ==
    /\ f_pc = "selenium"
    /\ IF ~SELENIUM_AVAILABLE
       THEN /\ sel_result' = "none"
            /\ f_pc' = "after_selenium"
            /\ UNCHANGED <<driver, use_undetected>>
       ELSE /\ UNCHANGED sel_result
            /\ IF UNDETECTED_CHROME_AVAILABLE
               THEN \E launched \in BOOLEAN :
                      IF launched
                      THEN /\ driver' = "uc"
                           /\ use_undetected' = TRUE
                           /\ f_pc' = "sel_stealth"
                      ELSE /\ f_pc' = "sel_regular"
                           /\ UNCHANGED <<driver, use_undetected>>
               ELSE /\ f_pc' = "sel_regular"
                    /\ UNCHANGED <<driver, use_undetected>>
    /\ UNCHANGED <<pc, scrape_vars, main_vars, util_vars, flag_vars, static_vars,
                   stealth, navigated, challenge_detected, rounds, round_outcome, quit_calls,
                   quit_failed, propagated, sel_exit, f_result>>

\* `if not use_undetected:` the regular browser; its launch can raise.
LaunchRegular ==
    /\ f_pc = "sel_regular"
    /\ \E launched \in BOOLEAN :
         IF launched
         THEN /\ driver' = "regular"
              /\ f_pc' = "sel_stealth"
              /\ UNCHANGED <<sel_exit, sel_result>>
         ELSE /\ RaiseInTry
              /\ UNCHANGED driver
    /\ UNCHANGED <<pc, scrape_vars, main_vars, util_vars, flag_vars, static_vars,
                   use_undetected, stealth, navigated, challenge_detected,
                   rounds, round_outcome, quit_calls, quit_failed, propagated, f_result>>

\* `if not UNDETECTED_CHROME_AVAILABLE:` guards the fingerprint script.
InstallsStealthScript == ~UNDETECTED_CHROME_AVAILABLE

\* driver.execute_cdp_cmd('Page.addScriptToEvaluateOnNewDocument', ...).
StealthScript ==
    /\ f_pc = "sel_stealth"
    /\ IF InstallsStealthScript
       THEN \E done \in BOOLEAN :
              IF done
              THEN /\ stealth' = TRUE
                   /\ f_pc' = "sel_navigate"
                   /\ UNCHANGED <<sel_exit, sel_result>>
              ELSE /\ RaiseInTry
                   /\ UNCHANGED stealth
       ELSE /\ f_pc' = "sel_navigate"
            /\ UNCHANGED <<stealth, sel_exit, sel_result>>
    /\ UNCHANGED <<pc, scrape_vars, main_vars, util_vars, flag_vars, static_vars, driver,
                   use_undetected, navigated, challenge_detected, rounds, round_outcome,
                   quit_calls, quit_failed, propagated, f_result>>

\* driver.get(url), which can raise, and the settle time.
Navigate ==
    /\ f_pc = "sel_navigate"
    /\ navigated' = TRUE
    /\ \E loaded \in BOOLEAN :
         IF loaded
         THEN /\ f_pc' = "sel_check"
              /\ UNCHANGED <<sel_exit, sel_result>>
         ELSE RaiseInTry
    /\ UNCHANGED <<pc, scrape_vars, main_vars, util_vars, flag_vars, static_vars, driver,
                   use_undetected, stealth, challenge_detected, rounds, round_outcome,
                   quit_calls, quit_failed, propagated, f_result>>

\* The challenge indicators in page_source; an error reading it counts as
\* no challenge.
CheckChallenge ==
    /\ f_pc = "sel_check"
    /\ \E detected \in BOOLEAN :
         /\ challenge_detected' = detected
         /\ f_pc' = IF detected THEN "sel_challenge" ELSE "sel_settle"
    /\ UNCHANGED <<pc, scrape_vars, main_vars, util_vars, flag_vars, static_vars, driver,
                   use_undetected, stealth, navigated, rounds, round_outcome, quit_calls,
                   quit_failed, propagated, sel_exit, sel_result, f_result>>

ChallengeLoopEnds_OnlyWhenResolved(outcome, n) == outcome = "resolved"

\* `for i in range(6):` with `break` when the recheck finds no indicator and
\* `break` in the round's except branch: the loop is over after round n.
ChallengeLoopEnds(outcome, n) ==
    outcome \in {"resolved", "error"} \/ n >= ChallengeRounds

\* One round of the wait loop: resolved (break), still challenged, or an
\* error in the round (break). After the loop the function goes on with
\* time.sleep(wait_time), the wait for the body and the scrolling.
ChallengeRound ==
    /\ f_pc = "sel_challenge"
    /\ rounds < ChallengeRounds
    /\ rounds' = rounds + 1
    /\ \E outcome \in {"resolved", "unresolved", "error"} :
         /\ round_outcome' = outcome
         /\ f_pc' = IF ChallengeLoopEnds(outcome, rounds + 1)
                    THEN "sel_settle" ELSE "sel_challenge"
    /\ UNCHANGED <<pc, scrape_vars, main_vars, util_vars, flag_vars, static_vars, driver,
                   use_undetected, stealth, navigated, challenge_detected,
                   quit_calls, quit_failed, propagated, sel_exit, sel_result,
                   f_result>>

\* time.sleep(wait_time), the wait for the body and the staged scrolling;
\* their errors are caught in place.
SettleAndScroll ==
    /\ f_pc = "sel_settle"
    /\ f_pc' = "sel_capture"
    /\ UNCHANGED <<pc, scrape_vars, main_vars, util_vars, flag_vars, static_vars,
                   session_vars, sel_exit, sel_result, f_result>>

\* html = driver.page_source (`return None` when it raises) and
\* return BeautifulSoup(html, 'html.parser').
Capture ==
    /\ f_pc = "sel_capture"
    /\ \E outcome \in {"doc", "no_markup", "parse_error"} :
         IF outcome = "doc"
         THEN /\ sel_exit' = "normal"
              /\ sel_result' = "doc"
              /\ f_pc' = "sel_finally"
         ELSE IF outcome = "no_markup"
         THEN /\ sel_exit' = "no_markup"
              /\ sel_result' = "none"
              /\ f_pc' = "sel_finally"
         ELSE RaiseInTry
    /\ UNCHANGED <<pc, scrape_vars, main_vars, util_vars, flag_vars, static_vars,
                   session_vars, f_result>>

Releases_OnlyOnNormalReturn(d, exit) == d # "none" /\ exit = "normal"

\* finally: `if driver:` decides whether quit() is called.
Releases(d, exit) == d # "none"

\* `except Exception: pass` around driver.quit(): a failing quit() does not
\* leave the finally block as an exception.
ReleaseErrorPropagates(quit_ok) == FALSE

\* finally: time.sleep(1); driver.quit().
Finally ==
    /\ f_pc = "sel_finally"
    /\ IF Releases(driver, sel_exit)
       THEN \E quit_ok \in BOOLEAN :
              /\ quit_calls' = quit_calls + 1
              /\ quit_failed' = ~quit_ok
              /\ propagated' = ReleaseErrorPropagates(quit_ok)
              /\ f_pc' = IF ReleaseErrorPropagates(quit_ok)
                         THEN "raised" ELSE "after_selenium"
       ELSE /\ f_pc' = "after_selenium"
            /\ UNCHANGED <<quit_calls, quit_failed, propagated>>
    /\ UNCHANGED <<pc, scrape_vars, main_vars, util_vars, flag_vars, static_vars, driver,
                   use_undetected, stealth, navigated, challenge_detected,
                   rounds, round_outcome, sel_exit, sel_result, f_result>>

DynamicSucceeded_Always(result) == TRUE

\* get_soup: `if soup: return soup`.
DynamicSucceeded(result) == result = "doc"

\* get_soup after the dynamic attempt: its document, or on to requests.
AfterSelenium ==
    /\ f_pc = "after_selenium"
    /\ IF DynamicSucceeded(sel_result)
       THEN /\ f_result' = sel_result
            /\ f_pc' = "fetch_done"
       ELSE /\ f_pc' = "static"
            /\ UNCHANGED f_result
    /\ UNCHANGED <<pc, scrape_vars, main_vars, util_vars, flag_vars, static_vars,
                   session_vars, sel_exit, sel_result>>

Backoff_FromZero(d, a) == d * a

\* fetch_with_retry: time.sleep(delay * (attempt + 1)).
Backoff(d, a) == d * (a + 1)

\* fetch_with_retry: `if attempt < max_retries - 1:` sleep and try again.
ShouldRetry(a) == a < MaxRetries - 1

\* fetch_with_retry: one iteration of `for attempt in range(max_retries):`.
\* requests.get raising and raise_for_status() raising are both
\* RequestException.
StaticTry ==
    /\ f_pc = "static"
    /\ attempt < MaxRetries
    /\ gets' = gets + 1
    /\ \E outcome \in {"ok", "network_error", "http_error"} :
         /\ last_get' = outcome
         /\ IF outcome = "ok"
            THEN /\ static_result' = "response"
                 /\ f_pc' = "static_parse"
                 /\ UNCHANGED <<attempt, slept>>
            ELSE IF ShouldRetry(attempt)
            THEN /\ slept' = Append(slept, Backoff(delay, attempt))
                 /\ attempt' = attempt + 1
                 /\ UNCHANGED <<f_pc, static_result>>
            ELSE /\ static_result' = "none"
                 /\ f_pc' = "static_parse"
                 /\ UNCHANGED <<attempt, slept>>
    /\ UNCHANGED <<pc, scrape_vars, main_vars, util_vars, flag_vars, session_vars,
                   sel_exit, sel_result, f_result>>

\* get_soup: `if response is None: return None`, else the parsed content
\* (None when parsing raises).
StaticParse ==
    /\ f_pc = "static_parse"
    /\ IF static_result = "none"
       THEN f_result' = "none"
       ELSE \E parsed \in BOOLEAN : f_result' = IF parsed THEN "doc" ELSE "none"
    /\ f_pc' = "fetch_done"
    /\ UNCHANGED <<pc, scrape_vars, main_vars, util_vars, flag_vars, static_vars,
                   session_vars, sel_exit, sel_result>>

NextFetch ==
    \/ GetSoupEnter
    \/ SeleniumStart
    \/ LaunchRegular
    \/ StealthScript
    \/ Navigate
    \/ CheckChallenge
    \/ ChallengeRound
    \/ SettleAndScroll
    \/ Capture
    \/ Finally
    \/ AfterSelenium
    \/ StaticTry
    \/ StaticParse

SpecFetch == InitFetch /\ [][NextFetch]_vars

\* ------------------------------------- the date utilities, on arguments
\* The program outside the utility under study: not started.
ProgramIdle ==
    /\ FetchIdle
    /\ carried = 0
    /\ pc = "parse_args"
    /\ start_arg = 0
    /\ end_arg = 0
    /\ source = "g2"
    /\ overrides_json = FALSE
    /\ start_date = None
    /\ end_date = None
    /\ url = FALSE
    /\ page_num = 0
    /\ soup = "unset"
    /\ json_found = FALSE
    /\ json_left = 0
    /\ elems_left = 0
    /\ review = "unset"
    /\ review_date = None
    /\ page_stopped_early = FALSE
    /\ reviews = <<>>
    /\ main_reviews = <<>>
    /\ output = <<>>
    /\ saved = FALSE
    /\ exit_code = None
    /\ ending = "none"
    /\ warnings = 0
    /\ stop_reason = "none"
    /\ fetches = 0

program_vars == <<pc, scrape_vars, main_vars, fetch_vars, carried>>

\* Python's bool as it prints.
PyBool(b) == IF b THEN "True" ELSE "False"

RangeDays == 0..MaxRangeDay

\* The arguments: review_date is a datetime or None, the bounds are
\* datetimes.
InitRange ==
    /\ ProgramIdle
    /\ u_pc = "range"
    /\ range_d \in RangeDays \cup {None}
    /\ range_start \in RangeDays
    /\ range_end \in RangeDays
    /\ in_range = "unset"
    /\ should_stop = "unset"
    /\ ParseDateIdle
    /\ ParseReviewIdle
    /\ ElementsIdle

\* is_date_in_range(review_date, start_date, end_date): the chained
\* comparison of a datetime with None raises TypeError.
CallIsDateInRange ==
    /\ u_pc = "range"
    /\ in_range = "unset"
    /\ in_range' = IF range_d = None THEN "TypeError"
                   ELSE PyBool(is_date_in_range(range_d, range_start, range_end))
    /\ UNCHANGED <<program_vars, u_pc, range_d, range_start, range_end,
                   should_stop, parse_date_vars, parse_review_vars, elements_vars>>

\* should_stop_scraping(review_date, start_date).
CallShouldStopScraping ==
    /\ u_pc = "range"
    /\ should_stop = "unset"
    /\ should_stop' = PyBool(should_stop_scraping(range_d, range_start))
    /\ UNCHANGED <<program_vars, u_pc, range_d, range_start, range_end,
                   in_range, parse_date_vars, parse_review_vars, elements_vars>>

NextRange ==
    \/ CallIsDateInRange
    \/ CallShouldStopScraping

SpecRange == InitRange /\ [][NextRange]_vars

\* ------------------------------------------ parse_date, on rendered dates
\* The calendar: years of four digits, one of them a leap year.
Years == 2023..(2023 + MaxYears - 1)

IsLeap(y) == (y % 4 = 0 /\ y % 100 # 0) \/ y % 400 = 0

DaysInMonth(y, m) ==
    IF m = 2 THEN (IF IsLeap(y) THEN 29 ELSE 28)
    ELSE IF m \in {4, 6, 9, 11} THEN 30 ELSE 31

CalendarDates ==
    {dt \in [year : Years, month : 1..12, day : 1..31] :
        dt.day <= DaysInMonth(dt.year, dt.month)}

\* The default formats of parse_date with the day-first slash format ahead
\* of the month-first one.
Formats_DayFirst ==
    << "%Y-%m-%d", "%B %d, %Y", "%b %d, %Y", "%d %B %Y", "%d %b %Y",
       "%d/%m/%Y", "%m/%d/%Y", "%Y-%m-%d %H:%M:%S" >>

\* The default `formats` list of parse_date, in its order.
Formats ==
    << "%Y-%m-%d", "%B %d, %Y", "%b %d, %Y", "%d %B %Y", "%d %b %Y",
       "%m/%d/%Y", "%d/%m/%Y", "%Y-%m-%d %H:%M:%S" >>

FormatSet == {Formats[i] : i \in 1..Len(Formats)}

\* How a month is written: in digits, by its full name (%B) or by its
\* abbreviated name (%b). May is written the same in both.
MonthWord(m, style) == IF m = 5 THEN "both" ELSE style

\* A date text: its layout (Y a year of four digits, N a number of two
\* digits, W a month name), how the month is written, and its three fields
\* from left to right; a text with a time of day carries 00:00:00.
DateText(layout_, month_, a_, b_, c_) ==
    [layout |-> layout_, month_as |-> month_, a |-> a_, b |-> b_, c |-> c_]

\* datetime.strftime of a calendar date (at midnight).
strftime(dt, fmt) ==
    CASE fmt = "%Y-%m-%d" ->
            DateText("Y-N-N", "digits", dt.year, dt.month, dt.day)
      [] fmt = "%B %d, %Y" ->
            DateText("W N, Y", MonthWord(dt.month, "full"),
                     dt.month, dt.day, dt.year)
      [] fmt = "%b %d, %Y" ->
            DateText("W N, Y", MonthWord(dt.month, "abbreviated"),
                     dt.month, dt.day, dt.year)
      [] fmt = "%d %B %Y" ->
            DateText("N W Y", MonthWord(dt.month, "full"),
                     dt.day, dt.month, dt.year)
      [] fmt = "%d %b %Y" ->
            DateText("N W Y", MonthWord(dt.month, "abbreviated"),
                     dt.day, dt.month, dt.year)
      [] fmt = "%m/%d/%Y" ->
            DateText("N/N/Y", "digits", dt.month, dt.day, dt.year)
      [] fmt = "%d/%m/%Y" ->
            DateText("N/N/Y", "digits", dt.day, dt.month, dt.year)
      [] fmt = "%Y-%m-%d %H:%M:%S" ->
            DateText("Y-N-N 00:00:00", "digits", dt.year, dt.month, dt.day)

\* The layout a format's pattern matches, and the month spellings it takes.
FormatLayout(fmt) ==
    CASE fmt = "%Y-%m-%d" -> "Y-N-N"
      [] fmt \in {"%B %d, %Y", "%b %d, %Y"} -> "W N, Y"
      [] fmt \in {"%d %B %Y", "%d %b %Y"} -> "N W Y"
      [] fmt \in {"%m/%d/%Y", "%d/%m/%Y"} -> "N/N/Y"
      [] fmt = "%Y-%m-%d %H:%M:%S" -> "Y-N-N 00:00:00"

FormatMonthWords(fmt) ==
    CASE fmt \in {"%B %d, %Y", "%d %B %Y"} -> {"full", "both"}
      [] fmt \in {"%b %d, %Y", "%d %b %Y"} -> {"abbreviated", "both"}
      [] OTHER -> {"digits"}

\* The fields of a text as the directives of a format read them.
FormatFields(text, fmt) ==
    CASE fmt \in {"%Y-%m-%d", "%Y-%m-%d %H:%M:%S"} ->
            [year |-> text.a, month |-> text.b, day |-> text.c]
      [] fmt \in {"%B %d, %Y", "%b %d, %Y", "%m/%d/%Y"} ->
            [year |-> text.c, month |-> text.a, day |-> text.b]
      [] fmt \in {"%d %B %Y", "%d %b %Y", "%d/%m/%Y"} ->
            [year |-> text.c, month |-> text.b, day |-> text.a]

\* datetime.strptime(text, fmt): <<>> for ValueError (the pattern does not
\* match the whole text, or the fields are not a date of the calendar),
\* <<d>> for the date d.
strptime(text, fmt) ==
    LET dt == FormatFields(text, fmt) IN
    IF /\ text.layout = FormatLayout(fmt)
       /\ text.month_as \in FormatMonthWords(fmt)
       /\ dt.month \in 1..12
       /\ dt.day \in 1..31
       /\ dt.day <= DaysInMonth(dt.year, dt.month)
    THEN <<dt>> ELSE <<>>

\* `for fmt in formats:` from the i-th format on: the first format that
\* parses decides; None (<<>>) when none does.
RECURSIVE TryFormats(_, _)
TryFormats(text, i) ==
    IF i > Len(Formats) THEN <<>>
    ELSE IF strptime(text, Formats[i]) # <<>> THEN strptime(text, Formats[i])
    ELSE TryFormats(text, i + 1)

\* parse_date(date_str) on a text in full (parse_date above is its outcome
\* on day numbers).
parse_date_text(text) == TryFormats(text, 1)

InitParseDate ==
    /\ ProgramIdle
    /\ RangeIdle
    /\ ParseReviewIdle
    /\ ElementsIdle
    /\ u_pc = "render"
    /\ pd_date \in {<<dt>> : dt \in CalendarDates}
    /\ pd_fmt \in FormatSet
    /\ pd_text = <<>>
    /\ pd_parsed = <<>>

\* The date is written in the chosen format.
RenderDate ==
    /\ u_pc = "render"
    /\ pd_text' = <<strftime(pd_date[1], pd_fmt)>>
    /\ u_pc' = "parse"
    /\ UNCHANGED <<program_vars, range_vars, pd_date, pd_fmt, pd_parsed,
                   parse_review_vars, elements_vars>>

\* parse_date(date_str) with the default formats.
ParseDate ==
    /\ u_pc = "parse"
    /\ pd_parsed' = parse_date_text(pd_text[1])
    /\ u_pc' = "parsed"
    /\ UNCHANGED <<program_vars, range_vars, pd_date, pd_fmt, pd_text,
                   parse_review_vars, elements_vars>>

NextParseDate ==
    \/ RenderDate
    \/ ParseDate

SpecParseDate == InitParseDate /\ [][NextParseDate]_vars

\* --------------------------------------------- parse_review, on elements
\* The elements handed to parse_review: every combination of a failing
\* read, a title element and text lengths, with one date text.
ParseElements == {el \in Elements : el.date = 0}

InitParse ==
    /\ ProgramIdle
    /\ RangeIdle
    /\ ParseDateIdle
    /\ ElementsIdle
    /\ u_pc = "call"
    /\ pr_adapter \in Sources
    /\ pr_element \in {<<el>> : el \in ParseElements}
    /\ pr_result = <<>>
    /\ pr_seen = 1
    /\ pr_kept = <<>>

\* review = self.parse_review(element)
CallParseReview ==
    /\ u_pc = "call"
    /\ pr_result' = parse_review(pr_adapter, pr_element[1])
    /\ u_pc' = "loop_body"
    /\ UNCHANGED <<program_vars, range_vars, parse_date_vars, elements_vars,
                   pr_adapter,
                   pr_element, pr_seen, pr_kept>>

\* `if review is None: continue`; a record, its date taken as one of the
\* window, is appended: self.reviews.append(review).
KeepRecord ==
    /\ u_pc = "loop_body"
    /\ pr_kept' = IF pr_result = <<>> THEN pr_kept
                  ELSE Append(pr_kept, pr_result[1])
    /\ u_pc' = "next"
    /\ UNCHANGED <<program_vars, range_vars, parse_date_vars, elements_vars,
                   pr_adapter,
                   pr_element, pr_result, pr_seen>>

\* The next element of review_elements.
NextElement ==
    /\ u_pc = "next"
    /\ pr_seen < MaxParsed
    /\ pr_element' \in {<<el>> : el \in ParseElements}
    /\ pr_result' = <<>>
    /\ pr_seen' = pr_seen + 1
    /\ u_pc' = "call"
    /\ UNCHANGED <<program_vars, range_vars, parse_date_vars, elements_vars,
                   pr_adapter,
                   pr_kept>>

NextParse ==
    \/ CallParseReview
    \/ KeepRecord
    \/ NextElement

SpecParse == InitParse /\ [][NextParse]_vars

\* ------------------------------------- get_review_elements, on documents
\* An element of a document: its tag and its place among the elements of
\* that tag.
Run(tag, lo, hi) == [i \in 1..(hi - lo + 1) |-> [tag |-> tag, n |-> lo + i - 1]]

\* What one lookup soup.find_all(tag, attrs) can find: nothing, or a few
\* elements of its tag, in overlapping stretches so that two lookups of one
\* tag can find the same element.
MatchLists(tag) ==
    {<<>>, Run(tag, 1, 2), Run(tag, 2, 4), Run(tag, 2, MaxMatches + 1)}

\* The divs that the scan of G2's second strategy takes for review
\* containers.
ScanLists == {<<>>, Run("div", 4, 5), Run("div", 1, MaxScanned)}

\* The documents handed to G2Scraper.get_review_elements: the matches of
\* its six selectors, in the order of the list, and the divs its scan
\* takes.
G2Docs ==
    {[selectors |-> <<a, b, c, d, e, f>>, scan |-> g] :
        a \in MatchLists("div"), b \in MatchLists("article"),
        c \in MatchLists("div"), d \in MatchLists("div"),
        e \in MatchLists("div"), f \in MatchLists("li"), g \in ScanLists}

\* The documents handed to CapterraScraper.get_review_elements: the matches
\* of its five selectors.
CapterraDocs ==
    {[selectors |-> <<a, b, c, d, e>>, scan |-> <<>>] :
        a \in MatchLists("div"), b \in MatchLists("article"),
        c \in MatchLists("div"), d \in MatchLists("section"),
        e \in MatchLists("li")}

\* The documents handed to TrustpilotScraper.get_review_elements: the
\* matches of its three lookups.
TrustpilotDocs ==
    {[selectors |-> <<a, b, c>>, scan |-> <<>>] :
        a \in MatchLists("article"), b \in MatchLists("div"),
        c \in MatchLists("section")}

DocsOf(adapter) ==
    CASE adapter = "g2" -> G2Docs
      [] adapter = "capterra" -> CapterraDocs
      [] adapter = "trustpilot" -> TrustpilotDocs

\* A selector loop that stops at the first selector with a match.
G2SelectorsSuffice_FirstMatch(n) == n >= 1

\* `if len(reviews) >= 5: break` of G2's selector loop.
G2SelectorsSuffice(n) == n >= G2MinElements

\* G2's selector loop: `if found and len(found) > 0:
\* reviews.extend(found)`, then the break.
RECURSIVE G2SelectorLoop(_, _, _)
G2SelectorLoop(selectors, i, reviews_) ==
    IF i > Len(selectors) THEN reviews_
    ELSE IF Len(selectors[i]) > 0
         THEN IF G2SelectorsSuffice(Len(reviews_ \o selectors[i]))
              THEN reviews_ \o selectors[i]
              ELSE G2SelectorLoop(selectors, i + 1, reviews_ \o selectors[i])
         ELSE G2SelectorLoop(selectors, i + 1, reviews_)

\* G2's second strategy: each div taken for a review container is
\* appended; `if len(reviews) >= 10: break`.
RECURSIVE G2Scan(_, _, _)
G2Scan(divs, i, reviews_) ==
    IF i > Len(divs) THEN reviews_
    ELSE IF Len(reviews_) + 1 >= G2ScanCap
         THEN Append(reviews_, divs[i])
         ELSE G2Scan(divs, i + 1, Append(reviews_, divs[i]))

\* "Remove duplicates": the first occurrence of each element is kept.
RECURSIVE unique_reviews(_, _, _)
unique_reviews(reviews_, i, kept) ==
    IF i > Len(reviews_) THEN kept
    ELSE IF \E j \in 1..Len(kept) : kept[j] = reviews_[i]
         THEN unique_reviews(reviews_, i + 1, kept)
         ELSE unique_reviews(reviews_, i + 1, Append(kept, reviews_[i]))

\* G2Scraper.get_review_elements; its third strategy reads the JSON
\* scripts and adds nothing.
G2_get_review_elements(doc) ==
    LET found == G2SelectorLoop(doc.selectors, 1, <<>>)
        scanned == IF Len(found) < G2FewElements
                   THEN G2Scan(doc.scan, 1, found)
                   ELSE found
    IN unique_reviews(scanned, 1, <<>>)

\* Capterra's selector loop: `if found: reviews.extend(found); break`.
RECURSIVE CapterraSelectorLoop(_, _)
CapterraSelectorLoop(selectors, i) ==
    IF i > Len(selectors) THEN <<>>
    ELSE IF Len(selectors[i]) > 0 THEN selectors[i]
         ELSE CapterraSelectorLoop(selectors, i + 1)

\* Capterra's last lookup, find_all(['div', 'article', 'li'], class with
\* 'review'): the test of the first, second and fifth selector, so it finds
\* what they find.
CapterraLastLookup(doc) ==
    doc.selectors[1] \o doc.selectors[2] \o doc.selectors[5]

\* CapterraScraper.get_review_elements; the JSON scripts read in between
\* add nothing.
Capterra_get_review_elements(doc) ==
    LET found == CapterraSelectorLoop(doc.selectors, 1)
    IN IF Len(found) = 0 THEN CapterraLastLookup(doc) ELSE found

\* TrustpilotScraper.get_review_elements: article, `if not reviews:` div,
\* `if not reviews:` section.
Trustpilot_get_review_elements(doc) ==
    IF Len(doc.selectors[1]) > 0 THEN doc.selectors[1]
    ELSE IF Len(doc.selectors[2]) > 0 THEN doc.selectors[2]
    ELSE doc.selectors[3]

get_review_elements(adapter, doc) ==
    CASE adapter = "g2" -> G2_get_review_elements(doc)
      [] adapter = "capterra" -> Capterra_get_review_elements(doc)
      [] adapter = "trustpilot" -> Trustpilot_get_review_elements(doc)

InitElements ==
    /\ ProgramIdle
    /\ RangeIdle
    /\ ParseDateIdle
    /\ ParseReviewIdle
    /\ u_pc = "discover"
    /\ re_adapter \in Sources
    /\ re_doc \in DocsOf(re_adapter)
    /\ re_result = <<>>

\* review_elements = self.get_review_elements(soup)
CallGetReviewElements ==
    /\ u_pc = "discover"
    /\ re_result' = <<get_review_elements(re_adapter, re_doc)>>
    /\ u_pc' = "discovered"
    /\ UNCHANGED <<program_vars, range_vars, parse_date_vars,
                   parse_review_vars, re_adapter, re_doc>>

NextElements == CallGetReviewElements

SpecElements == InitElements /\ [][NextElements]_vars

\* ------------------------------------ the loop with get_soup followed
\* scrape() from its first call of get_soup on, each call of get_soup
\* followed step by step inside the loop.
InitSeq ==
    /\ InitFetch
    /\ delay = 1

\* A call that returns before the function has ended.
GetSoupReturned_Early(position) == position # "idle"

\* soup = get_soup(url, use_selenium): a plain call, the assignment is made
\* when the function has returned.
GetSoupReturned(position) == position = "fetch_done"

\* get_soup returns into scrape(): `if soup is None:` the loop is left
\* (`Failed to fetch page`, break), else the page is processed.
GetSoupReturns ==
    /\ pc = "fetch"
    /\ GetSoupReturned(f_pc)
    /\ f_pc' = "idle"
    /\ fetches' = fetches + 1
    /\ soup' = IF f_result = "doc" THEN "doc" ELSE "none"
    /\ IF FetchFailed(soup')
       THEN LeaveLoop("fetch_failed")
       ELSE pc' = "json" /\ UNCHANGED stop_reason
    /\ UNCHANGED <<url, page_num, json_found, json_left, elems_left, review,
                   review_date, page_stopped_early, reviews, main_vars>>
    /\ UNCHANGED <<flag_vars, static_vars, session_vars, sel_exit, sel_result,
                   f_result, util_vars>>

\* `while url:` again, and the next call of get_soup: its locals start
\* afresh. Pages up to MaxFollowed are followed.
CallGetSoup ==
    /\ pc = "fetch"
    /\ url
    /\ f_pc = "idle"
    /\ page_num <= MaxFollowed
    /\ f_pc' = "get_soup"
    /\ driver' = "none"
    /\ use_undetected' = FALSE
    /\ stealth' = FALSE
    /\ navigated' = FALSE
    /\ challenge_detected' = FALSE
    /\ rounds' = 0
    /\ round_outcome' = "none"
    /\ sel_exit' = "none"
    /\ sel_result' = "pending"
    /\ quit_calls' = 0
    /\ quit_failed' = FALSE
    /\ propagated' = FALSE
    /\ attempt' = 0
    /\ gets' = 0
    /\ last_get' = "none"
    /\ slept' = <<>>
    /\ static_result' = "pending"
    /\ f_result' = "pending"
    /\ UNCHANGED <<pc, scrape_vars, main_vars, util_vars, flag_vars>>

NextSeq ==
    \/ NextFetch
    \/ GetSoupReturns
    \/ CallGetSoup
    \/ ExtractJson
    \/ GetReviewElements
    \/ Fallback
    \/ EmptyCheck
    \/ ElementIter
    \/ GetNextPageUrl

SpecSeq == InitSeq /\ [][NextSeq]_vars

\* ------------------------------------------- one fetched page, discovery
\* A page that was fetched and went through the embedded-JSON pass, about
\* to be handed to get_review_elements. json_found is json_reviews being
\* non-empty, which takes a subclass whose parse_json_review yields records.
InitPage ==
    /\ FetchIdle
    /\ RangeIdle
    /\ ParseDateIdle
    /\ ParseReviewIdle
    /\ ElementsIdle
    /\ carried = 0
    /\ u_pc = "page"
    /\ pc = "discover"
    /\ start_arg \in Days
    /\ end_arg \in Days
    /\ start_arg <= end_arg
    /\ start_date = parse_date(start_arg)
    /\ end_date = parse_date(end_arg)
    /\ source \in Sources
    /\ overrides_json \in BOOLEAN
    /\ overrides_json => source = "g2"
    /\ url = TRUE
    /\ page_num \in {1, 2}
    /\ fetches = page_num
    /\ soup = "doc"
    /\ json_found \in BOOLEAN
    /\ json_found => parse_json_review_yields(overrides_json)
    /\ json_left = 0
    /\ elems_left = 0
    /\ review = "unset"
    /\ review_date \in IF json_found THEN {d \in Days : d >= start_date}
                       ELSE {None}
    /\ reviews = IF json_found
                    /\ is_date_in_range(review_date, start_date, end_date)
                 THEN <<PageRecord(review_date, source)>>
                 ELSE <<>>
    /\ page_stopped_early = FALSE
    /\ main_reviews = <<>>
    /\ output = <<>>
    /\ saved = FALSE
    /\ exit_code = 0
    /\ ending = "none"
    /\ warnings = 0
    /\ stop_reason = "none"

\* Discovery, the fallback and the emptiness check of that page.
NextPage ==
    \/ GetReviewElements
    \/ Fallback
    \/ EmptyCheck

SpecPage == InitPage /\ [][NextPage]_vars

\* ------------------------------------------------------------ properties
\* The positions inside the pagination loop.
LoopPcs == {"fetch", "json", "json_loop", "discover", "fallback",
            "empty_check", "elements"}

\* A parsed date strictly earlier than the start date.
TooOld(d) == d # None /\ d < start_date

IsReal(r) == ~r.sample
\* The records of a list that were parsed from pages.
RealRecords(list) == SelectSeq(list, IsReal)

C1_StopStepAppendsNothing ==
    (TooOld(review_date') /\ ~TooOld(review_date)) => reviews' = reviews

C1_NothingAfterDateStop ==
    stop_reason \in {"date", "date_json"}
        => (/\ pc' \notin LoopPcs
            /\ fetches' <= fetches
            /\ RealRecords(reviews') = RealRecords(reviews))

\* C1. As soon as a parsed record's date is strictly earlier than the start
\* date the pagination loop is left: the step that parses it appends
\* nothing, and from then on no element and no page is processed, no fetch
\* is made and no record from a page is added.
C1_HaltOnOldRecord ==
    /\ [](TooOld(review_date) => pc \in {"after_loop", "json_return"})
    /\ [][C1_StopStepAppendsNothing]_vars
    /\ [][C1_NothingAfterDateStop]_vars

\* Page 2's first element is too old: the loop is left with the page's other
\* element unprocessed and only page 1's record accumulated.
C1_Witness ==
    /\ pc = "after_loop"
    /\ stop_reason = "date"
    /\ TooOld(review_date)
    /\ page_num = 2
    /\ elems_left = MaxElems
    /\ Len(reviews) = 1

\* C2. scrape() fetches at most 100 pages: no fetch is issued for a page
\* number above 100, and the loop left for the page limit has made exactly
\* 100 fetches.
C2_PageCap ==
    /\ fetches <= MaxPages
    /\ page_num <= MaxPages + 1
    /\ (pc \in LoopPcs => page_num <= MaxPages)
    /\ (pc = "after_loop" /\ stop_reason = "limit" => fetches = MaxPages)

\* The limit stops the loop although the adapter returned a next-page URL.
C2_Witness ==
    /\ pc = "after_loop"
    /\ stop_reason = "limit"
    /\ url
    /\ fetches = MaxPages
    /\ page_num = MaxPages + 1

\* C3. Whenever scrape() returns with no record accepted from pages, whatever
\* the stop reason, the list it returns is the sample set: SampleCount
\* synthetic records tagged with the adapter's source name.
C3_SampleWheneverNothingAccepted ==
    (pc = "returned" /\ Len(RealRecords(reviews)) = 0)
        => /\ Len(reviews) = SampleCount
           /\ \A i \in 1..Len(reviews) :
                reviews[i].sample /\ reviews[i].source = get_source_name(source)

\* C4. For every window start <= end, start = end included, when no real
\* record is extracted the saved reviews array has exactly 10 entries, each
\* with the requested source and a review_date within [start, end].
C4_SampleOutputInWindow ==
    (saved /\ Len(RealRecords(output)) = 0)
        => /\ Len(output) = SampleCount
           /\ \A i \in 1..Len(output) :
                /\ output[i].source = source
                /\ start_date <= output[i].date
                /\ output[i].date <= end_date

C5_DroppedAndLoopGoesOn ==
    (pc = "elements" /\ review' = "record" /\ review_date' = None)
        => (/\ reviews' = reviews
            /\ pc' = "elements"
            /\ elems_left' = elems_left - 1)

\* C5. A record whose date cannot be parsed is not appended and does not stop
\* the loop: the element loop goes on with the next element, and a date stop
\* is never made on an unparseable date.
C5_UnparseableDropped ==
    /\ [][C5_DroppedAndLoopGoesOn]_vars
    /\ [](pc = "after_loop" /\ stop_reason = "date" => review_date # None)

\* On page 2, after one record was accepted, a record with an unparseable
\* date was dropped and the loop goes on with the page's next element.
C5_Witness ==
    /\ pc = "elements"
    /\ page_num = 2
    /\ review = "record"
    /\ review_date = None
    /\ elems_left = 1
    /\ Len(reviews) = 1

C6_FailedFetchLeavesLoop ==
    (pc = "fetch" /\ soup' = "none")
        => (pc' = "after_loop" /\ reviews' = reviews)

C6_NothingAfterFailedFetch ==
    stop_reason = "fetch_failed"
        => (/\ pc' \notin LoopPcs
            /\ fetches' <= fetches
            /\ (Len(reviews) > 0 => reviews' = reviews))

\* C6. When the fetch of a page returns no document the loop is left at
\* once, no further page is fetched, and the records accepted from the
\* earlier pages are what scrape() returns.
C6_FetchFailureEndsLoop ==
    /\ [][C6_FailedFetchLeavesLoop]_vars
    /\ [][C6_NothingAfterFailedFetch]_vars

\* The fetch of page 3 failed with two records accepted before.
C6_Witness ==
    /\ pc = "after_loop"
    /\ stop_reason = "fetch_failed"
    /\ soup = "none"
    /\ page_num = 3
    /\ Len(reviews) = 2

C7_StopsExactlyWhenEmpty ==
    pc = "empty_check"
        => ((pc' = "after_loop" /\ stop_reason' = "empty")
              <=> (~json_found /\ elems_left = 0))

C7_StoppedBeforeLookup ==
    (pc = "after_loop" /\ stop_reason = "empty")
        => (~json_found /\ elems_left = 0 /\ url /\ page_num = fetches)

C7_NothingAfterEmptyStop ==
    stop_reason = "empty" => (pc' \notin LoopPcs /\ fetches' <= fetches)

\* C7. A fetched page with no embedded-JSON record and no element from the
\* discovery nor from the fallback ends the loop at that page, before its
\* next-page URL is looked up; a page with JSON records or with elements is
\* never ended for emptiness.
C7_EmptyPageStops ==
    /\ [][C7_StopsExactlyWhenEmpty]_vars
    /\ [](C7_StoppedBeforeLookup)
    /\ [][C7_NothingAfterEmptyStop]_vars

\* Page 2 is empty after page 1 gave a record.
C7_Witness ==
    /\ pc = "after_loop"
    /\ stop_reason = "empty"
    /\ page_num = 2
    /\ Len(reviews) = 1

\* C8. fetch_with_retry makes at most 3 GET attempts: it returns at the
\* first successful one, sleeps delay*k after the k-th failure for k < 3,
\* and after the 3rd failure returns no document without sleeping; an HTTP
\* error status is a failure like a network error.
C8_RetryWithBackoff ==
    /\ gets <= MaxRetries
    /\ Len(slept) <= MaxRetries - 1
    /\ \A k \in 1..Len(slept) : slept[k] = delay * k
    /\ (f_pc = "static" => Len(slept) = gets /\ gets < MaxRetries)
    /\ (static_result = "response"
          => last_get = "ok" /\ Len(slept) = gets - 1)
    /\ (static_result = "none"
          => /\ last_get \in {"network_error", "http_error"}
             /\ gets = MaxRetries
             /\ Len(slept) = MaxRetries - 1)
    /\ (static_result # "pending" => f_pc \in {"static_parse", "fetch_done"})

\* Three failures, the last an HTTP error status, with the waits delay and
\* 2*delay between them.
C8_Witness ==
    /\ f_pc = "fetch_done"
    /\ static_result = "none"
    /\ last_get = "http_error"
    /\ gets = MaxRetries
    /\ delay = 2
    /\ slept = <<2, 4>>

\* The positions of get_soup after get_soup_with_selenium has returned.
AfterSeleniumPcs == {"after_selenium", "static", "static_parse", "fetch_done"}

\* C9. A browser session, once acquired, is quit exactly once on every way
\* out of the dynamic fetch, and not before; a failing quit() does not leave
\* get_soup_with_selenium as an exception.
C9_SessionReleasedOnce ==
    /\ quit_calls <= 1
    /\ ~propagated
    /\ f_pc # "raised"
    /\ (driver = "none" => quit_calls = 0)
    /\ (f_pc \in AfterSeleniumPcs /\ driver # "none" => quit_calls = 1)
    /\ (quit_calls = 1 => f_pc \in AfterSeleniumPcs)

\* Navigation raised on a regular session, and quit() raised too.
C9_Witness ==
    /\ f_pc = "fetch_done"
    /\ driver = "regular"
    /\ navigated
    /\ sel_exit = "exception"
    /\ quit_calls = 1
    /\ quit_failed

\* C10. The dynamic attempt comes first when selenium is available; requests
\* is tried exactly when it is not available or the dynamic attempt returned
\* no document; get_soup returns no document only after requests was tried.
C10_DynamicThenStatic ==
    /\ use_selenium = SELENIUM_AVAILABLE
    /\ (f_pc \in {"static", "static_parse"} \/ gets > 0
          => (SELENIUM_AVAILABLE => sel_result = "none"))
    /\ (driver # "none" \/ sel_result # "pending" => SELENIUM_AVAILABLE)
    /\ (f_pc = "fetch_done"
          => /\ (SELENIUM_AVAILABLE => sel_result # "pending")
             /\ (gets > 0 <=> (~SELENIUM_AVAILABLE \/ sel_result = "none"))
             /\ (f_result = "none" => gets > 0 /\ static_result # "pending")
             /\ f_result # "pending")

\* The dynamic attempt returned no document and the second GET succeeded.
C10_Witness ==
    /\ f_pc = "fetch_done"
    /\ SELENIUM_AVAILABLE
    /\ sel_result = "none"
    /\ gets = 2
    /\ f_result = "doc"

\* An input error: a date text that is not YYYY-MM-DD, start after end, or a
\* --source outside the choices.
InputError ==
    validate_dates_raises(start_arg, end_arg) \/ source \notin Sources

C11_Contains(list, r) == \E j \in 1..Len(list) : list[j] = r

\* C11. A failure raised while a page is processed (element discovery,
\* fallback extraction, next-page lookup) is contained: the run that saves
\* its output ends with exit code 0 and every record accepted before the
\* failure is in the saved output.
C11_PageFailureContained ==
    (stop_reason = "raised" /\ saved)
        => /\ exit_code = 0
           /\ \A i \in 1..Len(reviews) : C11_Contains(output, reviews[i])

C12_ErrorSkipsElementOnly ==
    (pc = "elements" /\ review' = "error")
        => (/\ reviews' = reviews
            /\ pc' = "elements"
            /\ elems_left' = elems_left - 1
            /\ stop_reason' = stop_reason)

C12_RestStillParsed ==
    (pc = "elements" /\ review = "error")
        => /\ stop_reason = "none"
           /\ elems_left > 0 => ENABLED ElementIter

\* C12. An extraction error on one element is caught inside parse_review:
\* the element gives no record, the accumulated list is unchanged by it, and
\* the element loop goes on with the page's remaining elements.
C12_ExtractionErrorCaught ==
    /\ [][C12_ErrorSkipsElementOnly]_vars
    /\ [](C12_RestStillParsed)

\* On page 2, after a record was accepted, the first element failed to parse
\* and the second one is still to be parsed.
C12_Witness ==
    /\ pc = "elements"
    /\ review = "error"
    /\ page_num = 2
    /\ elems_left = 1
    /\ Len(reviews) = 1

\* C13. The list a scrape() call returns holds only the records accepted or
\* synthesized during that call, also on a second call on the same adapter
\* object: nothing of what self.reviews held at the call's entry is in it.
C13_ListBelongsToOneCall ==
    pc = "returned" => reviews = SubSeq(reviews, carried + 1, Len(reviews))

C14_Unblended(list) ==
    \A i, j \in 1..Len(list) : list[i].sample = list[j].sample

C14_ScrapeSubstitutes ==
    pc = "after_loop" /\ reviews' # reviews

C14_MainSubstitutes ==
    pc \in {"returned", "scrape_raised"} /\ main_reviews' # ScrapeResult

C14_SubstitutionStep ==
    /\ C14_ScrapeSubstitutes => Len(reviews) = 0 /\ C14_Unblended(reviews')
    /\ C14_MainSubstitutes => Len(ScrapeResult) = 0
    /\ (C14_ScrapeSubstitutes \/ C14_MainSubstitutes)
          <=> warnings' = warnings + 1
    /\ warnings' \in {warnings, warnings + 1}

C15_ExitCodes ==
    pc = "exited"
        => exit_code = IF InputError \/ ending \in {"interrupted", "unhandled"}
                       THEN 1 ELSE 0

\* C16. On an input error nothing is fetched and nothing is saved: the
\* scraper is built, scrape() entered and save_output called only with two
\* valid dates, start <= end, and a source among the choices.
C16_NoWorkOnInputError ==
    /\ InputError
         => /\ pc \in {"parse_args", "validate", "exited"}
            /\ fetches = 0
            /\ reviews = <<>>
            /\ ~saved
            /\ output = <<>>
            /\ (pc = "exited" => exit_code # 0)
    /\ (pc \notin {"parse_args", "validate", "exited"} \/ saved \/ fetches > 0)
         => /\ source \in Sources
            /\ start_date = start_arg
            /\ end_date = end_arg
            /\ start_date # None
            /\ start_date <= end_date

\* Start after end, both well-formed, with a valid source: exit 1, no file.
C16_Witness ==
    /\ pc = "exited"
    /\ ending = "input_error"
    /\ source \in Sources
    /\ start_arg # None
    /\ end_arg # None
    /\ start_arg > end_arg
    /\ ~saved

\* C17. is_date_in_range(d, start, end) is true exactly when
\* start <= d <= end, for every date d and all start <= end; d = start and
\* d = end are accepted.
C17_InRangeIsClosedInterval ==
    (in_range # "unset" /\ range_d # None /\ range_start <= range_end)
        => /\ in_range = PyBool(range_d \in range_start..range_end)
           /\ range_d \in {range_start, range_end} => in_range = "True"

\* The end of a window of several days is accepted.
C17_Witness ==
    /\ in_range = "True"
    /\ range_d = range_end
    /\ range_start < range_end

\* C18. should_stop_scraping(d, start) is true exactly when d is a parsed
\* date and d < start: false for None, false for d = start.
C18_StopIsStrictlyOlder ==
    should_stop # "unset"
        => /\ should_stop = PyBool(range_d # None /\ range_d < range_start)
           /\ range_d = None => should_stop = "False"
           /\ range_d = range_start => should_stop = "False"

\* A date equal to a start date that has older days before it: no stop.
C18_Witness ==
    /\ should_stop = "False"
    /\ range_d = range_start
    /\ range_start > 0

\* C19. For every calendar date and every supported format, rendering the
\* date in that format and calling parse_date on the text yields that same
\* calendar date.
C19_RoundTripEveryFormat ==
    u_pc = "parsed" => pd_parsed = pd_date

\* The date with its day and its month exchanged.
C19_Exchanged(dt) == [dt EXCEPT !.month = dt.day, !.day = dt.month]

\* C19, amended. The round trip holds for every supported format but
\* DD/MM/YYYY; a DD/MM/YYYY text parses to the same date when its day is
\* above 12 or equals its month, and otherwise, MM/DD/YYYY being tried
\* first, to the date with day and month exchanged.
C19_RoundTripButDayFirst ==
    u_pc = "parsed"
        => pd_parsed = IF pd_fmt = "%d/%m/%Y" /\ pd_date[1].day <= 12
                       THEN <<C19_Exchanged(pd_date[1])>>
                       ELSE pd_date

\* 5 March rendered as 05/03 was parsed as 3 May.
C19_Witness ==
    /\ u_pc = "parsed"
    /\ pd_fmt = "%d/%m/%Y"
    /\ pd_date[1].day = 5
    /\ pd_date[1].month = 3
    /\ pd_parsed # pd_date
    /\ pd_parsed[1].month = 5
    /\ pd_parsed[1].day = 3

\* A record with a title or a review text.
C20_HasContent(r) == r.title \/ r.text

\* C20. For each adapter parse_review never returns a record whose title and
\* review_text are both empty: it returns no record for an element that
\* gives neither, and every record of the accumulated list has a title or a
\* review text.
C20_NoEmptyRecord ==
    /\ pr_result # <<>> => C20_HasContent(pr_result[1])
    /\ (/\ u_pc \in {"loop_body", "next"}
        /\ ~TitleFound(pr_element[1])
        /\ ~TextFound(pr_adapter, pr_element[1])) => pr_result = <<>>
    /\ \A i \in 1..Len(pr_kept) : C20_HasContent(pr_kept[i])

\* After a kept record, an element with an empty title element and a text
\* under the G2 threshold was read without an error: no record, and the
\* list is as before.
C20_Witness ==
    /\ u_pc = "next"
    /\ pr_adapter = "g2"
    /\ pr_seen = 2
    /\ ~pr_element[1].fails
    /\ pr_element[1].title = "empty"
    /\ pr_element[1].text_len = 25
    /\ pr_element[1].whole_len = 25
    /\ pr_result = <<>>
    /\ Len(pr_kept) = 1

\* The positions of the element discovery and of what follows it on a page.
C22_DiscoveryPcs == {"discover", "fallback", "empty_check", "elements"}

\* One record of json_reviews is handled by its own date alone.
C22_JsonRecordStep ==
    pc = "json_loop"
        => LET d == review_date' IN
           /\ (d # None /\ start_date <= d /\ d <= end_date)
                => /\ reviews' = Append(reviews, PageRecord(d, source))
                   /\ pc' \in {"json_loop", "discover"}
           /\ (d = None \/ d > end_date)
                => /\ reviews' = reviews
                   /\ pc' \in {"json_loop", "discover"}
           /\ (d # None /\ d < start_date)
                => /\ reviews' = reviews
                   /\ pc' = "json_return"
                   /\ stop_reason' = "date_json"

C22_JsonStopReturns ==
    pc = "json_return" => (pc' = "returned" /\ reviews' = reviews)

C30_JsonPassIsIdle ==
    (pc = "json" /\ ~overrides_json)
        => (pc' = "discover" /\ reviews' = reviews /\ ~json_found'
            /\ json_left' = 0)

\* C30. For G2Scraper, CapterraScraper and TrustpilotScraper, which do not
\* override parse_json_review, extract_reviews_from_json returns an empty
\* list for every document: the embedded-JSON pass appends nothing and never
\* stops the scrape on a date.
C30_NoJsonRecordsFromAdapters ==
    /\ [][C30_JsonPassIsIdle]_vars
    /\ [](~overrides_json
            => /\ pc \notin {"json_loop", "json_return"}
               /\ ~json_found
               /\ json_left = 0
               /\ stop_reason # "date_json")

\* A shipped adapter, on its second page with one record accepted by the
\* element pass, has gone through the JSON pass to the discovery.
C30_Witness ==
    /\ ~overrides_json
    /\ source = "capterra"
    /\ pc = "discover"
    /\ page_num = 2
    /\ soup = "doc"
    /\ Len(reviews) = 1

\* A record parsed from a page of this source, dated inside the window.
C27_FromPageInWindow(r) ==
    /\ ~r.sample
    /\ r.source = source
    /\ r.date # None
    /\ start_date <= r.date
    /\ r.date <= end_date

\* Inside the loop the list stays as it is or gets the record just parsed
\* at its end.
C27_OnlyAppends ==
    (pc \in LoopPcs /\ pc' \in LoopPcs \cup {"json_return", "after_loop"})
        => \/ reviews' = reviews
           \/ reviews' = Append(reviews, PageRecord(review_date', source))

\* C27. At every point of the pagination loop every record of the
\* accumulated list was parsed from a fetched page and has a parsed date d
\* with start <= d <= end; the list only grows, by appending at its end,
\* until scrape() reaches its terminal step.
C27_AccumulatedInWindow ==
    /\ [](pc \in LoopPcs \cup {"json_return", "after_loop"}
            => \A i \in 1..Len(reviews) : C27_FromPageInWindow(reviews[i]))
    /\ [][C27_OnlyAppends]_vars

\* Two records accepted, of a window of two days, the later one first.
C27_Witness ==
    /\ pc = "elements"
    /\ start_date < end_date
    /\ Len(reviews) = 2
    /\ reviews[1].date = end_date
    /\ reviews[2].date = start_date

\* How scrape() has left its loop, once it has.
C28_LoopLeft ==
    \/ pc \in {"json_return", "after_loop", "returned", "scrape_raised", "save"}
    \/ pc = "exited" /\ ending \in {"completed", "unhandled"}

\* C28. scrape() leaves its loop for exactly one of these reasons: no next
\* page, a failed fetch, an empty page, a record older than start (element
\* pass or JSON pass), the 100-page cap.
C28_LeavesForListedReason ==
    C28_LoopLeft
        => stop_reason \in {"no_next", "fetch_failed", "empty", "date",
                            "date_json", "limit"}

C29_LaterRecordStep ==
    (pc = "elements" /\ review' = "record" /\ review_date' # None
        /\ review_date' > end_date)
        => (/\ reviews' = reviews
            /\ pc' = "elements"
            /\ elems_left' = elems_left - 1
            /\ stop_reason' = stop_reason
            /\ ~page_stopped_early')

C29_LoopGoesOn ==
    (pc = "elements" /\ review = "record" /\ review_date # None
        /\ review_date > end_date)
        => /\ stop_reason = "none"
           /\ elems_left > 0 => ENABLED ElementIter
           /\ elems_left = 0 => ENABLED GetNextPageUrl

\* C29. A record whose parsed date is later than the end date is not
\* appended and does not stop the loop: the following elements and the
\* following pages are still processed.
C29_LaterThanEndSkipped ==
    /\ [][C29_LaterRecordStep]_vars
    /\ [](C29_LoopGoesOn)

\* A record later than end was the last element of page 1: the list is
\* empty and the next-page lookup follows.
C29_Witness ==
    /\ pc = "elements"
    /\ page_num = 1
    /\ review = "record"
    /\ review_date # None
    /\ review_date > end_date
    /\ elems_left = 0
    /\ reviews = <<>>

C25_RoundStep ==
    f_pc = "sel_challenge"
        => /\ rounds' = rounds + 1
           /\ f_pc' \in {"sel_challenge", "sel_settle"}
           /\ f_pc' = "sel_settle"
                <=> (round_outcome' \in {"resolved", "error"}
                       \/ rounds' = ChallengeRounds)
           /\ UNCHANGED <<sel_exit, sel_result, f_result, driver>>

C25_ThenScrollAndCapture ==
    /\ f_pc = "sel_settle" => f_pc' = "sel_capture"
    /\ f_pc = "sel_capture" => sel_exit' \in {"normal", "no_markup", "exception"}

\* C25. When a challenge page is detected the wait loop runs at most 6
\* rounds, ends early when the recheck finds the indicators absent or when a
\* round raises, and in every case the fetch goes on to the scroll and the
\* markup capture instead of reporting failure.
C25_ChallengeWaitBounded ==
    /\ [](/\ rounds <= ChallengeRounds
          /\ rounds > 0 => challenge_detected
          /\ round_outcome # "none" <=> rounds > 0
          /\ f_pc = "sel_challenge"
               => (rounds < ChallengeRounds
                   /\ round_outcome \in {"none", "unresolved"}
                   /\ sel_exit = "none" /\ sel_result = "pending"))
    /\ [][C25_RoundStep /\ C25_ThenScrollAndCapture]_vars

\* Six rounds without the challenge resolving, and the markup was captured.
C25_Witness ==
    /\ challenge_detected
    /\ rounds = ChallengeRounds
    /\ round_outcome = "unresolved"
    /\ sel_exit = "normal"
    /\ sel_result = "doc"

\* C26. In every dynamic fetch with a browser session, the anti-detection
\* measures are in effect before the navigation: the session is the
\* undetected variant, or the fingerprint script is installed on the regular
\* session, also when the undetected variant is importable but failed to
\* launch.
C26_StealthBeforeNavigation ==
    navigated => (driver = "uc" \/ (driver = "regular" /\ stealth))

\* The first k of a list of match lists, joined in order.
RECURSIVE C21_Joined(_, _)
C21_Joined(strategies, k) ==
    IF k = 0 THEN <<>> ELSE C21_Joined(strategies, k - 1) \o strategies[k]

\* The matches of the first strategy that finds anything, the empty list if
\* none does.
C21_FirstNonEmpty(strategies) ==
    LET hits == {k \in 1..Len(strategies) : Len(strategies[k]) > 0}
    IN IF hits = {} THEN <<>>
       ELSE strategies[CHOOSE k \in hits : \A h \in hits : k <= h]

\* The matches joined strategy after strategy up to the first one at which
\* n were collected, all of them if that never happens.
C21_UntilCount(strategies, n) ==
    LET enough == {k \in 1..Len(strategies) :
                     Len(C21_Joined(strategies, k)) >= n}
    IN IF enough = {} THEN C21_Joined(strategies, Len(strategies))
       ELSE C21_Joined(strategies, CHOOSE k \in enough : \A h \in enough : k <= h)

C21_FirstAt(list, e) ==
    CHOOSE i \in 1..Len(list) : list[i] = e /\ \A j \in 1..(i - 1) : list[j] # e

\* r holds each element of list once, in the order of first occurrence.
C21_EachOnceInOrder(r, list) ==
    /\ \A i, j \in 1..Len(r) : i # j => r[i] # r[j]
    /\ {r[i] : i \in 1..Len(r)} = {list[i] : i \in 1..Len(list)}
    /\ \A i, j \in 1..Len(r) :
         i < j => C21_FirstAt(list, r[i]) < C21_FirstAt(list, r[j])

\* The strategies of an adapter in the order the method tries them.
C21_Strategies(adapter, doc) ==
    CASE adapter = "g2" -> doc.selectors \o <<doc.scan>>
      [] adapter = "capterra" -> doc.selectors \o <<CapterraLastLookup(doc)>>
      [] adapter = "trustpilot" -> doc.selectors

C21_FirstStrategyWins ==
    re_adapter \in {"capterra", "trustpilot"}
        => re_result[1] = C21_FirstNonEmpty(C21_Strategies(re_adapter, re_doc))

\* C21 as stated. For Capterra and Trustpilot the result is the matches of
\* the first strategy that finds anything (empty if none does); for G2 it is
\* the matches joined strategy after strategy until five were collected,
\* each element once.
C21_FirstOrAccumulated ==
    u_pc = "discovered"
        => /\ C21_FirstStrategyWins
           /\ re_adapter = "g2"
                => C21_EachOnceInOrder(re_result[1],
                       C21_UntilCount(C21_Strategies("g2", re_doc),
                                      G2MinElements))

\* What G2's method collects: the selectors' matches joined until five were
\* collected; with fewer than three, the scanned divs on top until ten were
\* collected.
C21_G2Collected(doc) ==
    LET found == C21_UntilCount(doc.selectors, G2MinElements)
        room == G2ScanCap - Len(found)
        taken == IF Len(doc.scan) <= room THEN doc.scan
                 ELSE SubSeq(doc.scan, 1, room)
    IN IF Len(found) >= G2FewElements THEN found ELSE found \o taken

\* C21, amended. For Capterra and Trustpilot the result is the matches of
\* the first strategy that finds anything (empty if none does). For G2 the
\* matches of the six selectors are joined in order until five were
\* collected, an element found twice counting twice; only if fewer than
\* three were collected are the scanned divs added, until ten were
\* collected; the result holds each collected element once.
C21_FirstOrAccumulatedThenScanned ==
    u_pc = "discovered"
        => /\ C21_FirstStrategyWins
           /\ re_adapter = "g2"
                => C21_EachOnceInOrder(re_result[1], C21_G2Collected(re_doc))

\* G2 returned five elements or more from several selectors, one of them
\* found by two selectors, and left the scanned divs aside.
C21_Witness ==
    /\ u_pc = "discovered"
    /\ re_adapter = "g2"
    /\ Len(re_doc.selectors[1]) > 0
    /\ Len(re_doc.selectors[1]) < G2MinElements
    /\ Len(re_doc.scan) > 0
    /\ Len(re_result[1]) >= G2MinElements
    /\ Len(re_result[1]) < Len(C21_G2Collected(re_doc))
    /\ \A i \in 1..Len(re_result[1]) : re_result[1][i].n <= MaxMatches + 1

\* Discovery returned: the step did not raise.
C23_DiscoveryReturned == pc = "discover" /\ pc' # "scrape_raised"

\* The fallback returned its list.
C23_FallbackReturned == pc = "fallback" /\ pc' = "empty_check"

C23_FallbackCapped ==
    C23_FallbackReturned => elems_left' <= FallbackCap

C23_EmptyGoesToFallback ==
    (C23_DiscoveryReturned /\ elems_left' = 0) => pc' = "fallback"

C23_EmptyWithoutJsonGoesToFallback ==
    (C23_DiscoveryReturned /\ elems_left' = 0)
        => pc' = IF json_found THEN "empty_check" ELSE "fallback"

C23_EmptinessAfterFallback ==
    (pc = "empty_check" /\ pc' = "after_loop")
        => (elems_left = 0 /\ ~json_found /\ stop_reason' = "empty")

C24_FetchInProgress == f_pc \notin {"idle", "fetch_done"}

\* A browser session was acquired and not yet released.
C24_SessionInProgress == driver # "none" /\ quit_calls = 0

\* A call of get_soup for a later page begins.
C24_NextFetchStarts == f_pc = "idle" /\ f_pc' = "get_soup"

C24_StartsAfterPageIsDone ==
    C24_NextFetchStarts
        => /\ pc = "fetch"
           /\ fetches = page_num - 1
           /\ elems_left = 0
           /\ json_left = 0
           /\ ~C24_SessionInProgress

\* C24. The fetch of the next page starts only when the fetch of the page
\* before has returned and every element of that page went through the
\* element loop; while a fetch is in progress nothing of a page is being
\* processed, a page is processed only when its own fetch has returned and
\* its browser session was released, within a fetch the static requests
\* begin only after the browser session was released, and a browser
\* session is open only inside a fetch: never two fetches, never two
\* sessions.
C24_StrictlySequential ==
    /\ [][C24_StartsAfterPageIsDone]_vars
    /\ [](C24_FetchInProgress
            => (pc = "fetch" /\ elems_left = 0 /\ json_left = 0))
    /\ [](pc \in LoopPcs \ {"fetch"}
            => (/\ f_pc = "idle"
                /\ fetches = page_num
                /\ ~C24_SessionInProgress))
    /\ []((gets > 0 \/ f_result # "pending") => ~C24_SessionInProgress)
    /\ [](C24_SessionInProgress => C24_FetchInProgress)

\* The second page is being fetched with a browser session open, after a
\* record of the first page was accepted.
C24_Witness ==
    /\ page_num = 2
    /\ fetches = 1
    /\ C24_FetchInProgress
    /\ C24_SessionInProgress
    /\ navigated
    /\ Len(reviews) > 0

====
